---- MODULE Spec2Model ----
(***************************************************************************)
(* A model of the region quadtree of src/main.rs: the Rect predicates      *)
(* (contains, intersects), QuadTree::new, insert, subdivide and query, and *)
(* a client that calls insert and query in any order on one tree.          *)
(*                                                                         *)
(* A QuadTree is a record with the fields of the struct.  An               *)
(* Option<Box<QuadTree>> is a sequence of length 0 (None) or 1 (Some).     *)
(* Coordinates are small integers, so the i32 arithmetic never wraps.      *)
(***************************************************************************)
EXTENDS Integers, Sequences, FiniteSets, Bags, TLC

\* Largest width and height of the root boundary given to QuadTree::new.
MaxSide == 2

\* Largest capacity given to QuadTree::new.
MaxCap == 2

\* Number of insert calls the client makes.
MaxInserts == 3

\* Depth of nested insert calls the call stack holds; a deeper call aborts
\* the process (stack overflow).
MaxStack == 8

----------------------------------------------------------------------------
(* struct Rect and its predicates *)

Rect(x, y, w, h) == [x |-> x, y |-> y, w |-> w, h |-> h]

\* contains with the left edge forgotten (a faulty variant, for C4).
containsNoLeftEdge(self, point) ==
    /\ point.x <= self.x + self.w
    /\ point.y >= self.y
    /\ point.y <= self.y + self.h

\* contains with the far edges excluded (a faulty variant, for C12).
containsHalfOpen(self, point) ==
    /\ point.x >= self.x
    /\ point.x < self.x + self.w
    /\ point.y >= self.y
    /\ point.y < self.y + self.h

\* contains that lets in the column left of the rect (a faulty variant,
\* for C19).
containsOneLeft(self, point) ==
    /\ point.x >= self.x - 1
    /\ point.x <= self.x + self.w
    /\ point.y >= self.y
    /\ point.y <= self.y + self.h

contains(self, point) ==
    /\ point.x >= self.x
    /\ point.x <= self.x + self.w
    /\ point.y >= self.y
    /\ point.y <= self.y + self.h

\* intersects with the inequalities made inclusive (a faulty variant, for
\* C9).
intersectsInclusive(self, range) ==
    /\ self.x <= range.x + range.w
    /\ self.x + self.w >= range.x
    /\ self.y <= range.y + range.h
    /\ self.y + self.h >= range.y

\* intersects that looks at the x axis only (a faulty variant, for C13).
intersectsXOnly(self, range) ==
    /\ self.x < range.x + range.w
    /\ self.x + self.w > range.x

intersects(self, range) ==
    /\ self.x < range.x + range.w
    /\ self.x + self.w > range.x
    /\ self.y < range.y + range.h
    /\ self.y + self.h > range.y

----------------------------------------------------------------------------
(* struct QuadTree *)

None == << >>

Some(v) == << v >>

\* The child fields, in the order insert and query go through them.
Quadrants == << "north_west", "north_east", "south_west", "south_east" >>

new(boundary, capacity) ==
    [ boundary   |-> boundary,
      capacity   |-> capacity,
      points     |-> << >>,
      north_west |-> None,
      north_east |-> None,
      south_west |-> None,
      south_east |-> None ]

\* Division by 2 that rounds up (a faulty variant, for C15).
HalfRoundedUp(n) == (n + 1) \div 2

\* i32 division by 2 of a non-negative value.
Half(n) == n \div 2

\* subdivide with the south-east child left out (a faulty variant, for C5).
subdivideThree(self) ==
    LET x == self.boundary.x
        y == self.boundary.y
        w == self.boundary.w
        h == self.boundary.h
        nw == Rect(x, y, Half(w), Half(h))
        ne == Rect(x + Half(w), y, Half(w), Half(h))
        sw == Rect(x, y + Half(h), Half(w), Half(h))
    IN  [ self EXCEPT !.north_west = Some(new(nw, self.capacity)),
                      !.north_east = Some(new(ne, self.capacity)),
                      !.south_west = Some(new(sw, self.capacity)) ]

\* subdivide giving the children one more than the node's capacity (a
\* faulty variant, for C6).
subdivideLargerCapacity(self) ==
    LET x == self.boundary.x
        y == self.boundary.y
        w == self.boundary.w
        h == self.boundary.h
        nw == Rect(x, y, Half(w), Half(h))
        ne == Rect(x + Half(w), y, Half(w), Half(h))
        sw == Rect(x, y + Half(h), Half(w), Half(h))
        se == Rect(x + Half(w), y + Half(h), Half(w), Half(h))
    IN  [ self EXCEPT !.north_west = Some(new(nw, self.capacity + 1)),
                      !.north_east = Some(new(ne, self.capacity + 1)),
                      !.south_west = Some(new(sw, self.capacity + 1)),
                      !.south_east = Some(new(se, self.capacity + 1)) ]

\* subdivide that empties the node's own list (a faulty variant, for C14).
subdivideClearing(self) ==
    LET x == self.boundary.x
        y == self.boundary.y
        w == self.boundary.w
        h == self.boundary.h
        nw == Rect(x, y, Half(w), Half(h))
        ne == Rect(x + Half(w), y, Half(w), Half(h))
        sw == Rect(x, y + Half(h), Half(w), Half(h))
        se == Rect(x + Half(w), y + Half(h), Half(w), Half(h))
    IN  [ self EXCEPT !.points = << >>,
                      !.north_west = Some(new(nw, self.capacity)),
                      !.north_east = Some(new(ne, self.capacity)),
                      !.south_west = Some(new(sw, self.capacity)),
                      !.south_east = Some(new(se, self.capacity)) ]

subdivide(self) ==
    LET x == self.boundary.x
        y == self.boundary.y
        w == self.boundary.w
        h == self.boundary.h
        nw == Rect(x, y, Half(w), Half(h))
        ne == Rect(x + Half(w), y, Half(w), Half(h))
        sw == Rect(x, y + Half(h), Half(w), Half(h))
        se == Rect(x + Half(w), y + Half(h), Half(w), Half(h))
    IN  [ self EXCEPT !.north_west = Some(new(nw, self.capacity)),
                      !.north_east = Some(new(ne, self.capacity)),
                      !.south_west = Some(new(sw, self.capacity)),
                      !.south_east = Some(new(se, self.capacity)) ]

\* The test of line 54 with <= for < (a faulty variant, for C7).
HasRoomOffByOne(self) ==
    Len(self.points) <= self.capacity /\ self.north_west = None

\* The test of line 54 keeping one place free (a faulty variant, for C18).
HasRoomKeepingOneFree(self) ==
    Len(self.points) + 1 < self.capacity /\ self.north_west = None

\* The test of line 54: the node takes the point itself.
HasRoom(self) ==
    Len(self.points) < self.capacity /\ self.north_west = None

\* What one insert call gives back: the node after the call, the returned
\* bool, the nodes the call and its nested calls were made on (each named
\* by its path from the root, in call order), and whether the call stack
\* overflowed (the process aborts and nothing is returned).
InsertResult(self, ret, calls, overflow) ==
    [ self |-> self, ret |-> ret, calls |-> calls, overflow |-> overflow ]

RECURSIVE insert(_, _, _)
RECURSIVE insertChildren(_, _, _, _, _)

\* The four match blocks of insert without the early return: every child
\* is offered the point (a faulty variant, for C8).
RECURSIVE insertChildrenAll(_, _, _, _, _)
insertChildrenAll(self, point, path, i, calls) ==
    IF i > Len(Quadrants)
    THEN InsertResult(self, FALSE, calls, FALSE)
    ELSE LET q == Quadrants[i]
         IN  IF self[q] = None
             THEN insertChildrenAll(self, point, path, i + 1, calls)
             ELSE LET r == insert(self[q][1], point, Append(path, q))
                      s == [self EXCEPT ![q] = Some(r.self)]
                      rest == insertChildrenAll(s, point, path, i + 1,
                                                calls \o r.calls)
                  IN  IF r.overflow
                      THEN InsertResult(s, FALSE, calls \o r.calls, TRUE)
                      ELSE [rest EXCEPT !.ret = r.ret \/ rest.ret]

\* insert that offers the point to the southern children first (a faulty
\* variant, for C16).
RECURSIVE insertChildrenSouthFirst(_, _, _, _, _)
insertChildrenSouthFirst(self, point, path, i, calls) ==
    LET order == << "south_west", "south_east", "north_west", "north_east" >>
    IN  IF i > Len(order)
        THEN InsertResult(self, FALSE, calls, FALSE)
        ELSE LET q == order[i]
             IN  IF self[q] = None
                 THEN insertChildrenSouthFirst(self, point, path, i + 1,
                                               calls)
                 ELSE LET r == insert(self[q][1], point, Append(path, q))
                          s == [self EXCEPT ![q] = Some(r.self)]
                      IN  IF r.overflow
                          THEN InsertResult(s, FALSE, calls \o r.calls, TRUE)
                          ELSE IF r.ret
                          THEN InsertResult(s, TRUE, calls \o r.calls, FALSE)
                          ELSE insertChildrenSouthFirst(s, point, path, i + 1,
                                                        calls \o r.calls)

\* The four match blocks of insert, from the i-th on: each child that is
\* Some is offered the point, and the first true returns.
insertChildren(self, point, path, i, calls) ==
    IF i > Len(Quadrants)
    THEN InsertResult(self, FALSE, calls, FALSE)
    ELSE LET q == Quadrants[i]
         IN  IF self[q] = None
             THEN insertChildren(self, point, path, i + 1, calls)
             ELSE LET r == insert(self[q][1], point, Append(path, q))
                      s == [self EXCEPT ![q] = Some(r.self)]
                  IN  IF r.overflow
                      THEN InsertResult(s, FALSE, calls \o r.calls, TRUE)
                      ELSE IF r.ret
                      THEN InsertResult(s, TRUE, calls \o r.calls, FALSE)
                      ELSE insertChildren(s, point, path, i + 1,
                                          calls \o r.calls)

insert(self, point, path) ==
    IF Len(path) >= MaxStack
    THEN InsertResult(self, FALSE, << path >>, TRUE)
    ELSE IF ~contains(self.boundary, point)
    THEN InsertResult(self, FALSE, << path >>, FALSE)
    ELSE IF HasRoom(self)
    THEN InsertResult([self EXCEPT !.points = Append(@, point)], TRUE,
                      << path >>, FALSE)
    ELSE insertChildren(IF self.north_west = None THEN subdivide(self)
                                                  ELSE self,
                        point, path, 1, << path >>)

\* What one query call gives back: the returned Option<Vec<Rect>> and the
\* nodes the call and its nested calls were made on, in call order.
QueryResult(ret, calls) == [ ret |-> ret, calls |-> calls ]

RECURSIVE query(_, _, _)
RECURSIVE queryChildren(_, _, _, _, _, _)

\* The four match blocks of query, from the i-th on: the Vec of each child
\* that is Some and answers Some is appended.
queryChildren(self, range, path, i, points, calls) ==
    IF i > Len(Quadrants)
    THEN QueryResult(Some(points), calls)
    ELSE LET q == Quadrants[i]
         IN  IF self[q] = None
             THEN queryChildren(self, range, path, i + 1, points, calls)
             ELSE LET r == query(self[q][1], range, Append(path, q))
                  IN  queryChildren(self, range, path, i + 1,
                                    IF r.ret = None THEN points
                                    ELSE points \o r.ret[1],
                                    calls \o r.calls)

\* The loop collecting the newest entry first (a faulty variant, for C17).
MatchingNewestFirst(points, range) ==
    LET RECURSIVE Rev(_)
        Rev(s) == IF s = << >> THEN << >>
                  ELSE Append(Rev(Tail(s)), Head(s))
    IN  Rev(SelectSeq(points, LAMBDA point : contains(range, point)))

\* The loop of lines 118-122.
Matching(points, range) ==
    SelectSeq(points, LAMBDA point : contains(range, point))

query(self, range, path) ==
    IF ~intersects(self.boundary, range)
    THEN QueryResult(None, << path >>)
    ELSE IF self.north_west = None
    THEN QueryResult(Some(Matching(self.points, range)), << path >>)
    ELSE queryChildren(self, range, path, 1,
                       Matching(self.points, range), << path >>)

----------------------------------------------------------------------------
(* The client: main builds one tree, then calls insert and query on it. *)

VARIABLES
    quadtree,   \* the tree main owns
    rects,      \* every Rect handed to insert, in call order (main's rects)
    returned,   \* the bool each of those insert calls returned
    last,       \* the last call: its name, argument, result and nested calls
    aborted     \* the process died of a stack overflow

vars == << quadtree, rects, returned, last, aborted >>

\* The root boundaries main may construct the tree with: origin (0, 0), as
\* in main, and every width and height up to MaxSide.
Boundaries == { Rect(0, 0, w, h) : w \in 0 .. MaxSide, h \in 0 .. MaxSide }

Capacities == 0 .. MaxCap

\* The 1 x 1 rects main builds from the mouse position (lines 208-213), at
\* the positions that matter to the splitting: the boundary's origin, the
\* point where it splits, the top end of the vertical split line, the
\* bottom-left and the far corner, and a position left of the boundary.
Entries(b) ==
    { Rect(b.x, b.y, 1, 1),
      Rect(b.x + Half(b.w), b.y + Half(b.h), 1, 1),
      Rect(b.x + Half(b.w), b.y, 1, 1),
      Rect(b.x, b.y + b.h, 1, 1),
      Rect(b.x + b.w, b.y + b.h, 1, 1),
      Rect(b.x - 1, b.y, 1, 1) }

\* The selection rects main queries with: the root boundary, the rect one
\* larger all round, the rect of the south-east quadrant, the rect that
\* touches the boundary's right edge from outside, and the empty selection
\* main starts with (line 201).
Regions(b) ==
    { b,
      Rect(b.x - 1, b.y - 1, b.w + 2, b.h + 2),
      Rect(b.x + Half(b.w), b.y + Half(b.h), Half(b.w), Half(b.h)),
      Rect(b.x + b.w, b.y, 1, b.h),
      Rect(0, 0, 0, 0) }

Call(op, arg, inserted, points_in_range, calls) ==
    [ op |-> op, arg |-> arg, inserted |-> inserted,
      points_in_range |-> points_in_range, calls |-> calls ]

Init ==
    /\ \E b \in Boundaries, c \in Capacities : quadtree = new(b, c)
    /\ rects = << >>
    /\ returned = << >>
    /\ last = Call("new", Rect(0, 0, 0, 0), FALSE, None, << >>)
    /\ aborted = FALSE

\* quadtree.insert(rect), lines 214-215.  A call that overflows the stack
\* ends the process.
Insert(rect) ==
    /\ ~aborted
    /\ Len(rects) < MaxInserts
    /\ LET r == insert(quadtree, rect, << >>)
       IN  IF r.overflow
           THEN /\ aborted' = TRUE
                /\ last' = Call("abort", rect, FALSE, None, r.calls)
                /\ UNCHANGED << quadtree, rects, returned >>
           ELSE /\ quadtree' = r.self
                /\ rects' = Append(rects, rect)
                /\ returned' = Append(returned, r.ret)
                /\ last' = Call("insert", rect, r.ret, None, r.calls)
                /\ UNCHANGED aborted

\* query that takes the root's matching points out of the tree (a faulty
\* variant, for C10).
QueryDrain(range) ==
    /\ ~aborted
    /\ LET r == query(quadtree, range, << >>)
       IN  last' = Call("query", range, FALSE, r.ret, r.calls)
    /\ quadtree' = [quadtree EXCEPT !.points =
                      SelectSeq(@, LAMBDA point : ~contains(range, point))]
    /\ UNCHANGED << rects, returned, aborted >>

\* quadtree.query(selection_rect), line 244: the tree is borrowed shared.
Query(range) ==
    /\ ~aborted
    /\ LET r == query(quadtree, range, << >>)
       IN  last' = Call("query", range, FALSE, r.ret, r.calls)
    /\ UNCHANGED << quadtree, rects, returned, aborted >>

Next ==
    \/ \E rect \in Entries(quadtree.boundary) : Insert(rect)
    \/ \E range \in Regions(quadtree.boundary) : Query(range)

Spec == Init /\ [][Next]_vars

----------------------------------------------------------------------------
(* Observations of a tree and of the calls made, used to state the claims. *)
(* The geometric relations are spelled out here on their own, so that the  *)
(* claims do not lean on the operators they are about.                     *)

Range(s) == { s[i] : i \in DOMAIN s }

\* The multiset of the elements of a sequence.
SeqBag(s) == [ e \in Range(s) |-> Cardinality({ i \in DOMAIN s : s[i] = e }) ]

\* How many times e occurs in s.
Count(s, e) == Cardinality({ i \in DOMAIN s : s[i] = e })

\* The origin of e lies in b, edges included.
Inside(b, e) ==
    /\ b.x <= e.x /\ e.x <= b.x + b.w
    /\ b.y <= e.y /\ e.y <= b.y + b.h

\* a and b overlap in more than an edge: neither lies wholly to the left
\* of, to the right of, above or below the other.
Overlaps(a, b) ==
    ~ \/ a.x + a.w <= b.x
      \/ b.x + b.w <= a.x
      \/ a.y + a.h <= b.y
      \/ b.y + b.h <= a.y

ChildFields == Range(Quadrants)

\* The children a node has.
Children(t) == { t[q][1] : q \in { f \in ChildFields : t[f] # None } }

IsLeaf(t) == \A q \in ChildFields : t[q] = None

\* Every node of the tree, the root included.
RECURSIVE Nodes(_)
Nodes(t) == { t } \cup UNION { Nodes(c) : c \in Children(t) }

\* How many nodes the tree has.
RECURSIVE NodeCount(_)
RECURSIVE NodeCountFrom(_, _)
NodeCountFrom(t, i) ==
    IF i > Len(Quadrants) THEN 0
    ELSE (IF t[Quadrants[i]] = None THEN 0
          ELSE NodeCount(t[Quadrants[i]][1]))
         + NodeCountFrom(t, i + 1)
NodeCount(t) == 1 + NodeCountFrom(t, 1)

\* Every entry held anywhere in the tree: the node's own, then those of
\* its subtrees.
RECURSIVE AllPoints(_)
RECURSIVE AllPointsFrom(_, _)
AllPointsFrom(t, i) ==
    IF i > Len(Quadrants) THEN << >>
    ELSE (IF t[Quadrants[i]] = None THEN << >>
          ELSE AllPoints(t[Quadrants[i]][1]))
         \o AllPointsFrom(t, i + 1)
AllPoints(t) == t.points \o AllPointsFrom(t, 1)

\* The rects whose insert call returned true.
Accepted ==
    LET idx == { i \in DOMAIN rects : returned[i] }
        RECURSIVE Pick(_)
        Pick(i) == IF i > Len(rects) THEN << >>
                   ELSE (IF i \in idx THEN << rects[i] >> ELSE << >>)
                        \o Pick(i + 1)
    IN  Pick(1)

AllInside == \A i \in DOMAIN rects : Inside(quadtree.boundary, rects[i])

----------------------------------------------------------------------------
(* C1 - C3: what the tree gives back of what was put in *)

\* The root has positive width and height and the capacity is at least 1:
\* the plain case of every claim about insert and query.
PlainTree ==
    /\ quadtree.boundary.w > 0
    /\ quadtree.boundary.h > 0
    /\ quadtree.capacity >= 1

\* C1: insert/query consistency.  When every rect handed to insert has its
\* origin inside the root boundary, query(root boundary) returns Some(list)
\* and the list holds, as a multiset, exactly the rects handed to insert.
\* Stated for a root of positive width and height and a capacity of at
\* least 1, which the claim covers.
C1_InsertQueryConsistency ==
    ( /\ PlainTree
      /\ AllInside
      /\ last.op = "query"
      /\ last.arg = quadtree.boundary )
    => /\ last.points_in_range # None
       /\ SeqBag(last.points_in_range[1]) = SeqBag(rects)

\* C2: query answers exactly which stored entries fall inside the region.
\* For a region that intersects the root boundary, the list returned is, as
\* a multiset, the entries stored anywhere in the tree whose origin lies in
\* the region, edges included.
C2_QueryExact ==
    ( /\ PlainTree
      /\ last.op = "query"
      /\ Overlaps(quadtree.boundary, last.arg) )
    => /\ last.points_in_range # None
       /\ SeqBag(last.points_in_range[1])
            = SeqBag(SelectSeq(AllPoints(quadtree),
                               LAMBDA e : Inside(last.arg, e)))

\* C3: in-bounds acceptance.  With a capacity of at least 1, insert returns
\* true whenever the origin of the entry lies inside the root boundary.
\* Stated for a root of positive width and height, which the claim covers.
C3_InBoundsAccepted ==
    ( /\ PlainTree
      /\ last.op = "insert"
      /\ Inside(quadtree.boundary, last.arg) )
    => last.inserted

----------------------------------------------------------------------------
(* C4 - C10 *)

\* C4: out-of-bounds rejection.  An insert of an entry whose origin is not
\* inside the root boundary returns false, is made on the root alone (no
\* child is visited), and leaves the whole tree, and so the number of
\* stored entries and every node's list, as it was.
C4_OutOfBoundsRejected ==
    [][ ( /\ last'.op = "insert"
          /\ ~Inside(quadtree.boundary, last'.arg) )
        => /\ ~last'.inserted
           /\ last'.calls = << << >> >>
           /\ quadtree' = quadtree
           /\ Len(AllPoints(quadtree')) = Len(AllPoints(quadtree)) ]_vars

\* An entry outside the boundary was rejected by a tree that has children
\* and stored entries.
C4_Witness ==
    /\ last.op = "insert"
    /\ ~Inside(quadtree.boundary, last.arg)
    /\ ~last.inserted
    /\ ~IsLeaf(quadtree)
    /\ Len(AllPoints(quadtree)) >= 2

\* C5: all-or-nothing children.  After any insert and query calls, every
\* node has all four children or none.
C5_AllOrNothingChildren ==
    \A n \in Nodes(quadtree) :
        \/ \A q \in ChildFields : n[q] = None
        \/ \A q \in ChildFields : n[q] # None

\* A tree two subdivisions deep that holds entries, seen after a query.
C5_Witness ==
    /\ last.op = "query"
    /\ quadtree.capacity >= 1
    /\ \E c \in Children(quadtree) : ~IsLeaf(c) /\ Len(c.points) >= 1

\* C6: bounded node capacity.  Every node, at any depth, holds at most
\* capacity entries in its own list, where capacity is the value the root
\* was constructed with, which every node carries.
C6_BoundedCapacity ==
    \A n \in Nodes(quadtree) :
        /\ n.capacity = quadtree.capacity
        /\ Len(n.points) <= quadtree.capacity

\* The root and one of its children are both full.
C6_Witness ==
    /\ quadtree.capacity >= 1
    /\ Len(quadtree.points) = quadtree.capacity
    /\ \E c \in Children(quadtree) : Len(c.points) = quadtree.capacity

\* C7: capacity respected before split.  With capacity c >= 1 and every
\* entry inside the boundary, the first c inserts leave the root a leaf
\* holding them all; after the (c+1)-th the root has been subdivided, once:
\* it has four children, all leaves, and the tree has no other node.
C7_CapacityBeforeSplit ==
    LET c == quadtree.capacity
    IN  ( c >= 1 /\ AllInside )
        => /\ Len(rects) <= c
              => /\ IsLeaf(quadtree)
                 /\ quadtree.points = rects
           /\ Len(rects) = c + 1
              => /\ \A q \in ChildFields :
                        quadtree[q] # None /\ IsLeaf(quadtree[q][1])
                 /\ NodeCount(quadtree) = 5
                 /\ quadtree.points = SubSeq(rects, 1, c)

\* The (c+1)-th insert into a tree of capacity c = 2 has just been made.
C7_Witness ==
    /\ quadtree.capacity = 2
    /\ AllInside
    /\ Len(rects) = 3
    /\ last.op = "insert"
    /\ NodeCount(quadtree) = 5

\* C8: each entry is stored at exactly one node.  The entries held over
\* all nodes are, as a multiset, the entries whose insert returned true (so
\* their number is the number of such calls), and a query reports no entry
\* more often than it was successfully inserted.
C8_StoredOnce ==
    /\ SeqBag(AllPoints(quadtree)) = SeqBag(Accepted)
    /\ Len(AllPoints(quadtree)) = Cardinality({ i \in DOMAIN returned :
                                                 returned[i] })
    /\ ( last.op = "query" /\ last.points_in_range # None )
       => \A e \in Range(last.points_in_range[1]) :
              Count(last.points_in_range[1], e) <= Count(Accepted, e)

\* A query reported an entry that lies inside two children of the root and
\* is stored in one of them.
C8_Witness ==
    /\ last.op = "query"
    /\ last.points_in_range # None
    /\ \E e \in Range(last.points_in_range[1]) :
          /\ Cardinality({ q \in ChildFields :
                             /\ quadtree[q] # None
                             /\ Inside(quadtree[q][1].boundary, e) }) >= 2
          /\ \E c \in Children(quadtree) : e \in Range(c.points)

\* C9: disjoint-region pruning.  query returns None exactly when the root
\* boundary and the region do not overlap (touching at an edge is not
\* overlapping), and then the call is made on the root alone; otherwise it
\* returns Some(list), whatever its children answer.
C9_DisjointPruned ==
    last.op = "query"
    => /\ last.points_in_range = None
          <=> ~Overlaps(quadtree.boundary, last.arg)
       /\ last.points_in_range = None => last.calls = << << >> >>

\* A region touching the root's right edge was answered None by a tree
\* with children.
C9_Witness ==
    /\ last.op = "query"
    /\ last.arg.x = quadtree.boundary.x + quadtree.boundary.w
    /\ last.arg.w > 0
    /\ quadtree.boundary.w > 0
    /\ last.points_in_range = None
    /\ ~IsLeaf(quadtree)

\* The tree the insert calls made so far build when no query is made
\* between them.
InsertsOnly ==
    LET RECURSIVE Fold(_, _)
        Fold(t, i) == IF i > Len(rects) THEN t
                      ELSE Fold(insert(t, rects[i], << >>).self, i + 1)
    IN  Fold(new(quadtree.boundary, quadtree.capacity), 1)

----------------------------------------------------------------------------
(* The predicates of Rect on their own: a node is built on a rect and      *)
(* contains and intersects are called on its boundary, as insert (line 50) *)
(* and query (line 114) do, with any argument.  last.inserted is the bool  *)
(* the call returned.                                                      *)

\* The rects the predicates are called on.
GeometryRects ==
    { Rect(o, o, w, h) : o \in 0 .. 1,
                         w \in 0 .. MaxSide, h \in 0 .. MaxSide }

\* The entries contains is asked about: origins around and on the largest
\* rect, with and without an extent of their own.
GeometryPoints ==
    { Rect(x, y, e, e) : x \in -1 .. MaxSide + 2, y \in -1 .. MaxSide + 2,
                         e \in 0 .. 1 }

\* The rects intersects is asked about.
GeometryRanges ==
    { Rect(x, y, w, h) : x \in -1 .. MaxSide + 1, y \in -1 .. MaxSide + 1,
                         w \in 0 .. MaxSide, h \in 0 .. MaxSide }

GeometryInit ==
    /\ \E b \in GeometryRects : quadtree = new(b, 0)
    /\ rects = << >>
    /\ returned = << >>
    /\ last = Call("new", Rect(0, 0, 0, 0), FALSE, None, << >>)
    /\ aborted = FALSE

\* self.boundary.contains(&point)
Contains(point) ==
    /\ last' = Call("contains", point, contains(quadtree.boundary, point),
                    None, << >>)
    /\ UNCHANGED << quadtree, rects, returned, aborted >>

\* self.boundary.intersects(&range)
Intersects(range) ==
    /\ last' = Call("intersects", range,
                    intersects(quadtree.boundary, range), None, << >>)
    /\ UNCHANGED << quadtree, rects, returned, aborted >>

GeometryNext ==
    \/ \E point \in GeometryPoints : Contains(point)
    \/ \E range \in GeometryRanges : Intersects(range)

SpecGeometry == GeometryInit /\ [][GeometryNext]_vars

----------------------------------------------------------------------------
(* C11 - C13 *)

\* C11: every call runs to completion.  Every insert call and every query
\* call returns, for every capacity (0 included): the process never dies
\* in a call.  Stated for a root of positive width and height, which the
\* claim covers.
C11_EveryCallReturns ==
    ( quadtree.boundary.w > 0 /\ quadtree.boundary.h > 0 ) => ~aborted

\* C12: containment is inclusive on all four edges.  c.contains(p) is true
\* exactly when c.x <= p.x <= c.x + c.w and c.y <= p.y <= c.y + c.h; the
\* extent of p plays no part; for {0,0,10,10} the points (0,0), (10,10),
\* (10,0), (0,10) are contained and (11,0), (-1,5) are not.
C12_ContainsInclusive ==
    /\ last.op = "contains"
       => /\ last.inserted
               <=> /\ quadtree.boundary.x <= last.arg.x
                   /\ last.arg.x <= quadtree.boundary.x + quadtree.boundary.w
                   /\ quadtree.boundary.y <= last.arg.y
                   /\ last.arg.y <= quadtree.boundary.y + quadtree.boundary.h
          /\ \A w \in 0 .. 1, h \in 0 .. 1 :
                contains(quadtree.boundary,
                         [last.arg EXCEPT !.w = w, !.h = h]) = last.inserted
    /\ \A p \in { << 0, 0 >>, << 10, 10 >>, << 10, 0 >>, << 0, 10 >> } :
          contains(Rect(0, 0, 10, 10), Rect(p[1], p[2], 1, 1))
    /\ ~contains(Rect(0, 0, 10, 10), Rect(11, 0, 1, 1))
    /\ ~contains(Rect(0, 0, 10, 10), Rect(-1, 5, 1, 1))

\* contains answered true for a point on the far corner of a rect with
\* positive width and height.
C12_Witness ==
    /\ last.op = "contains"
    /\ last.inserted
    /\ quadtree.boundary.w > 0
    /\ quadtree.boundary.h > 0
    /\ last.arg.x = quadtree.boundary.x + quadtree.boundary.w
    /\ last.arg.y = quadtree.boundary.y + quadtree.boundary.h

\* C13: intersection is edge-exclusive.  a.intersects(b) is true unless a
\* lies wholly to the left of, to the right of, above or below b, contact
\* along an edge or at a corner counting as apart; b.intersects(a) gives
\* the same; {0,0,10,10} and {10,0,10,10} do not intersect, {0,0,10,10} and
\* {9,0,10,10} do.
C13_IntersectsExclusive ==
    /\ last.op = "intersects"
       => /\ last.inserted
               <=> ~ \/ quadtree.boundary.x + quadtree.boundary.w <= last.arg.x
                     \/ last.arg.x + last.arg.w <= quadtree.boundary.x
                     \/ quadtree.boundary.y + quadtree.boundary.h <= last.arg.y
                     \/ last.arg.y + last.arg.h <= quadtree.boundary.y
          /\ intersects(last.arg, quadtree.boundary) = last.inserted
    /\ ~intersects(Rect(0, 0, 10, 10), Rect(10, 0, 10, 10))
    /\ intersects(Rect(0, 0, 10, 10), Rect(9, 0, 10, 10))

\* intersects answered false for two rects of positive area that share the
\* right edge of the first and overlap in y.
C13_Witness ==
    /\ last.op = "intersects"
    /\ ~last.inserted
    /\ quadtree.boundary.w > 0 /\ quadtree.boundary.h > 0
    /\ last.arg.w > 0 /\ last.arg.h > 0
    /\ last.arg.x = quadtree.boundary.x + quadtree.boundary.w
    /\ last.arg.y = quadtree.boundary.y

----------------------------------------------------------------------------
(* C14 - C15 *)

IsPrefix(s, t) == Len(s) <= Len(t) /\ SubSeq(t, 1, Len(s)) = s

\* Every node of t is still there in u, with its boundary, its capacity,
\* the entries it held at the same places of its list, and the children
\* it had.
RECURSIVE Keeps(_, _)
Keeps(t, u) ==
    /\ u.boundary = t.boundary
    /\ u.capacity = t.capacity
    /\ IsPrefix(t.points, u.points)
    /\ \A q \in ChildFields :
          t[q] # None => /\ u[q] # None
                         /\ Keeps(t[q][1], u[q][1])

\* The nodes of u whose own list is longer than in t, or that t does not
\* have and that hold entries; each with the entries it gained.
RECURSIVE Gains(_, _)
Gains(t, u) ==
    LET own == IF t = None THEN u.points
               ELSE SubSeq(u.points, Len(t[1].points) + 1, Len(u.points))
        wasLeaf == t = None \/ IsLeaf(t[1])
    IN  (IF own = << >> THEN { }
         ELSE { [ entries |-> own, wasLeaf |-> wasLeaf ] })
        \cup UNION { Gains(IF t = None THEN None ELSE t[1][q], u[q][1]) :
                       q \in { f \in ChildFields : u[f] # None } }

\* C14: monotonic node lifecycle.  Across every insert call every node
\* keeps its boundary, its capacity, the entries it holds at their places
\* and the children it has; all an insert changes is that one node that
\* was a leaf (or is new) gets the new entry appended, and that leaves get
\* children.
C14_MonotonicLifecycle ==
    [][ last'.op = "insert"
        => /\ Keeps(quadtree, quadtree')
           /\ Gains(Some(quadtree), quadtree')
                = IF last'.inserted
                  THEN { [ entries |-> << last'.arg >>, wasLeaf |-> TRUE ] }
                  ELSE { } ]_vars

\* An insert went into a tree whose root already had children and entries,
\* and was stored one level further down, in a node that was subdivided
\* before.
C14_Witness ==
    /\ last.op = "insert"
    /\ last.inserted
    /\ quadtree.capacity >= 1
    /\ Len(last.calls) >= 3
    /\ Len(quadtree.points) >= 1
    /\ \E c \in Children(quadtree) : ~IsLeaf(c) /\ Len(c.points) >= 1

\* The four child boundaries the claim gives for a node of boundary b.
QuarterBoundaries(b) ==
    [ north_west |-> [ x |-> b.x, y |-> b.y,
                       w |-> b.w \div 2, h |-> b.h \div 2 ],
      north_east |-> [ x |-> b.x + b.w \div 2, y |-> b.y,
                       w |-> b.w \div 2, h |-> b.h \div 2 ],
      south_west |-> [ x |-> b.x, y |-> b.y + b.h \div 2,
                       w |-> b.w \div 2, h |-> b.h \div 2 ],
      south_east |-> [ x |-> b.x + b.w \div 2, y |-> b.y + b.h \div 2,
                       w |-> b.w \div 2, h |-> b.h \div 2 ] ]

\* C15: subdivision geometry.  Subdividing a leaf gives it four children
\* that are empty leaves of its capacity, with the boundaries NW (x, y,
\* w/2, h/2), NE (x+w/2, y, ..), SW (x, y+h/2, ..), SE (x+w/2, y+h/2, ..),
\* the division truncating, and changes nothing else of the node; every
\* node with children has them with those boundaries; each child boundary
\* lies within the parent's; and for an odd width (height) no child reaches
\* the parent's last column x+w (row y+h).
C15_SubdivisionGeometry ==
    \A n \in Nodes(quadtree) :
        LET b == n.boundary
            s == IF IsLeaf(n) THEN subdivide(n) ELSE n
        IN  /\ IsLeaf(n)
               => /\ s.boundary = b
                  /\ s.capacity = n.capacity
                  /\ s.points = n.points
                  /\ \A q \in ChildFields :
                        /\ s[q] # None
                        /\ s[q][1].points = << >>
                        /\ IsLeaf(s[q][1])
            /\ \A q \in ChildFields :
                  LET c == s[q][1]
                  IN  /\ c.boundary = QuarterBoundaries(b)[q]
                      /\ c.capacity = n.capacity
                      /\ b.x <= c.boundary.x
                      /\ c.boundary.x + c.boundary.w <= b.x + b.w
                      /\ b.y <= c.boundary.y
                      /\ c.boundary.y + c.boundary.h <= b.y + b.h
                      /\ b.w % 2 = 1
                         => c.boundary.x + c.boundary.w < b.x + b.w
                      /\ b.h % 2 = 1
                         => c.boundary.y + c.boundary.h < b.y + b.h

\* A node of odd width below the root has been
\* subdivided by an insert.
C15_Witness ==
    /\ last.op = "insert"
    /\ \E n \in Nodes(quadtree) :
          /\ n # quadtree
          /\ ~IsLeaf(n)
          /\ n.boundary.w % 2 = 1

----------------------------------------------------------------------------
(* C16 *)

\* The order the claims give for the four children.
ChildOrder == << "north_west", "north_east", "south_west", "south_east" >>

OrderIndex(q) == CHOOSE i \in DOMAIN ChildOrder : ChildOrder[i] = q

Front(p) == SubSeq(p, 1, Len(p) - 1)

\* The node of t at the end of the path p of child fields, if there is one.
RECURSIVE NodeAt(_, _)
NodeAt(t, p) ==
    IF p = << >> THEN Some(t)
    ELSE IF t[Head(p)] = None THEN None
    ELSE NodeAt(t[Head(p)][1], Tail(p))

\* Where the path p comes in the sequence of calls (0: nowhere).
Position(calls, p) ==
    IF \E i \in DOMAIN calls : calls[i] = p
    THEN CHOOSE i \in DOMAIN calls : calls[i] = p
    ELSE 0

\* The entries of the subtree of t at p (none when there is no such node).
PointsAt(t, p) ==
    IF NodeAt(t, p) = None THEN << >> ELSE AllPoints(NodeAt(t, p)[1])

\* C16: fixed child order on insert.  The nested calls of an insert start
\* at the root; a child is called only after its parent and after all its
\* siblings that come before it in the order north-west, north-east,
\* south-west, south-east.  When the insert returns true the last call made
\* is the one on the node that took the entry: on the way down to it every
\* earlier sibling was offered the entry and took nothing, and every later
\* sibling was not called and is as it was (an empty leaf, if it was just
\* created).
C16_FixedChildOrder ==
    [][ last'.op = "insert"
        => LET calls == last'.calls
               acc == calls[Len(calls)]
           IN  /\ calls[1] = << >>
               /\ \A i \in 2 .. Len(calls) :
                     LET p == calls[i]
                     IN  /\ p # << >>
                         /\ Position(calls, Front(p)) \in 1 .. i - 1
                         /\ \A j \in 1 .. OrderIndex(p[Len(p)]) - 1 :
                               LET sib == Append(Front(p), ChildOrder[j])
                               IN  /\ Position(calls, sib) < i
                                   /\ Position(calls, sib)
                                        > Position(calls, Front(p))
               /\ last'.inserted
                  => /\ NodeAt(quadtree', acc) # None
                     /\ LET n == NodeAt(quadtree', acc)[1]
                        IN  /\ n.points # << >>
                            /\ n.points[Len(n.points)] = last'.arg
                            /\ Len(PointsAt(quadtree, acc)) < Len(n.points)
                     /\ \A k \in 1 .. Len(acc) :
                           \A j \in DOMAIN ChildOrder :
                              LET sib == Append(SubSeq(acc, 1, k - 1),
                                                ChildOrder[j])
                              IN  /\ j < OrderIndex(acc[k])
                                     => /\ Position(calls, sib) > 0
                                        /\ PointsAt(quadtree', sib)
                                             = PointsAt(quadtree, sib)
                                  /\ j > OrderIndex(acc[k])
                                     => /\ Position(calls, sib) = 0
                                        /\ NodeAt(quadtree', sib) # None
                                        /\ IF NodeAt(quadtree, sib) # None
                                           THEN NodeAt(quadtree', sib)
                                                  = NodeAt(quadtree, sib)
                                           ELSE LET c ==
                                                    NodeAt(quadtree', sib)[1]
                                                IN  /\ c.points = << >>
                                                    /\ IsLeaf(c) ]_vars

\* An entry whose origin lies in all four children of the root was taken
\* by the north-west subtree, and the other three children were not
\* called.
C16_Witness ==
    /\ last.op = "insert"
    /\ last.inserted
    /\ Len(last.calls) >= 2
    /\ last.calls[2] = << "north_west" >>
    /\ \A c \in Children(quadtree) : Inside(c.boundary, last.arg)
    /\ \A j \in 2 .. 4 : Position(last.calls, << ChildOrder[j] >>) = 0
    /\ quadtree.boundary.w > 0

----------------------------------------------------------------------------
(* C17 *)

\* What the claim gives for a node and a region: nothing when the two do
\* not overlap; else the node's own entries whose origin is in the region,
\* in list order, then what the four subtrees give, in ChildOrder.
RECURSIVE Expected(_, _)
RECURSIVE ExpectedFrom(_, _, _)
ExpectedFrom(t, r, i) ==
    IF i > Len(ChildOrder) THEN << >>
    ELSE (IF t[ChildOrder[i]] = None THEN << >>
          ELSE Expected(t[ChildOrder[i]][1], r))
         \o ExpectedFrom(t, r, i + 1)
Expected(t, r) ==
    IF ~Overlaps(t.boundary, r) THEN << >>
    ELSE SelectSeq(t.points, LAMBDA e : Inside(r, e)) \o ExpectedFrom(t, r, 1)

\* C17: deterministic query order.  For a region that intersects the node
\* queried, the sequence returned is the node's own matching entries in
\* insertion order, then the results of the north-west, north-east,
\* south-west and south-east subtrees in that order, each computed the same
\* way for the same region, a pruned subtree giving nothing.
C17_QueryOrder ==
    ( last.op = "query" /\ Overlaps(quadtree.boundary, last.arg) )
    => /\ last.points_in_range = Some(Expected(quadtree, last.arg))
       /\ \A n \in Nodes(quadtree) :
             Overlaps(n.boundary, last.arg)
             => query(n, last.arg, << >>).ret
                  = Some(Expected(n, last.arg))

\* A query returned three entries: one of the root's own first, then one
\* from each of two different children, the one of the child that comes
\* first in the order before the other.
C17_Witness ==
    /\ last.op = "query"
    /\ last.points_in_range # None
    /\ LET s == last.points_in_range[1]
       IN  /\ Len(s) = 3
           /\ quadtree.points = << s[1] >>
           /\ \E i, j \in DOMAIN ChildOrder :
                 /\ i < j
                 /\ quadtree[ChildOrder[i]] # None
                 /\ quadtree[ChildOrder[j]] # None
                 /\ quadtree[ChildOrder[i]][1].points = << s[2] >>
                 /\ quadtree[ChildOrder[j]][1].points = << s[3] >>
                 /\ s[2] # s[3]

----------------------------------------------------------------------------
(* C18 - C20 *)

\* How many of the rects stored by the calls before the last one have the
\* coordinate of e.
StoredBeforeAt(e) ==
    Cardinality({ i \in 1 .. Len(rects) - 1 :
                    returned[i] /\ rects[i].x = e.x /\ rects[i].y = e.y })

\* How many levels the tree has below the root.
RECURSIVE Depth(_)
Depth(t) ==
    IF IsLeaf(t) THEN 0
    ELSE 1 + (CHOOSE d \in { Depth(c) : c \in Children(t) } :
                 \A k \in { Depth(c) : c \in Children(t) } : k <= d)

\* How deep the nested calls of the last call went.
CallDepth ==
    CHOOSE d \in { Len(last.calls[i]) : i \in DOMAIN last.calls } :
        \A i \in DOMAIN last.calls : Len(last.calls[i]) <= d

C19_StoredInsideNode ==
    \A n \in Nodes(quadtree) :
        /\ \A e \in Range(n.points) : Inside(n.boundary, e)
        /\ \A e \in Range(AllPoints(n)) : Inside(n.boundary, e)

\* An entry is held two levels below the root, in a node whose boundary is
\* smaller than the root's.
C19_Witness ==
    \E c \in Children(quadtree) :
        \E g \in Children(c) :
            /\ g.points # << >>
            /\ g.boundary # quadtree.boundary
            /\ quadtree.points # << >>

\* C20: a rejected insert has no effect.  Whenever an insert returns false,
\* for whatever reason, the whole tree is as it was before the call: no
\* entry list has changed and no node has been subdivided.  Stated for a
\* root of positive width and height and a capacity of at least 1, which
\* the claim covers.
C20_RejectedInsertNoEffect ==
    [][ ( PlainTree /\ last'.op = "insert" /\ ~last'.inserted )
        => quadtree' = quadtree ]_vars

====
